---- MODULE Spec2Model ----
(***************************************************************************)
(* Model of the dynamic-watermarking parameter authentication pipeline:    *)
(* base conversion, keyed primitives, difference expansion, the watermark  *)
(* graph, the encoder (prepare / build / restore), the controller and the  *)
(* protected-call wrapper.                                                 *)
(*                                                                         *)
(* Python lists are sequences (1-based here, so list index i is sequence   *)
(* index i+1); pair indices p, bit positions j and node ids r keep their   *)
(* 0-based values.  A call that raises yields a record with ok = FALSE and *)
(* the error text; Optional values are sequences of length 0 (None) or 1.  *)
(* The keyed hash is an unknown function fixed by the key: a key is the    *)
(* record of the accepted draws it produces (draws of the shuffle, index   *)
(* of every pair, tie-break bit of every label asked so far).              *)
(***************************************************************************)
EXTENDS Integers, Sequences, FiniteSets, TLC

VARIABLES pc, params, key, zeta, eta, prepared, received, build, vr,
          restored, policy, call, de, gr, perm

vars == <<pc, params, key, zeta, eta, prepared, received, build, vr,
          restored, policy, call, de, gr, perm>>

\* ------------------------------------------------------------------ bounds

\* longest parameter list of the pipeline specifications
MaxLen == 6
\* largest eta tried (eta ranges over 0..MaxEta)
MaxEta == 3
\* difference-expansion inputs range over -MaxAbs..MaxAbs
MaxAbs == 6
\* longest digit array / largest ring length of the graph specifications
MaxMu == 3
\* number of nodes of the arbitrary heaps handed to the controller
MaxNodes == 2
\* largest expected code handed to the controller on arbitrary heaps
MaxCode == 7
\* number of changes an attacker makes to a prepared list
MaxTamper == 2
\* length of the list whose pair parities the attacker changes
TamperLen == 8
\* largest eta tried on that list
TamperEta == 2
\* largest n handed to keyed_permutation alone
MaxPerm == 6

\* the None of an Optional[Node]
NoneNode == -1

Raise(msg) == [ok |-> FALSE, err |-> msg]

\* ---------------------------------------------------------- base_convert.py

RECURSIVE int_to_digits_loop(_, _)
\* the while loop of int_to_digits: the digits of n > 0, most significant first
int_to_digits_loop(n, base) ==
    IF n > 0 THEN Append(int_to_digits_loop(n \div base, base), n % base)
    ELSE <<>>

int_to_digits(n, base) ==
    IF base < 2 THEN Raise("base must be >= 2")
    ELSE IF n < 0 THEN Raise("n must be non-negative")
    ELSE IF n = 0 THEN [ok |-> TRUE, val |-> <<0>>]
    ELSE [ok |-> TRUE, val |-> int_to_digits_loop(n, base)]

RECURSIVE digits_to_int_loop(_, _, _, _)
\* the for loop of digits_to_int from position i with accumulator n
digits_to_int_loop(digits, base, i, n) ==
    IF i > Len(digits) THEN [ok |-> TRUE, val |-> n]
    ELSE IF digits[i] < 0 \/ digits[i] >= base
         THEN Raise("digit out of range for base")
         ELSE digits_to_int_loop(digits, base, i + 1, n * base + digits[i])

digits_to_int(digits, base) ==
    IF base < 2 THEN Raise("base must be >= 2")
    ELSE IF Len(digits) = 0 THEN Raise("digits must be non-empty")
    ELSE digits_to_int_loop(digits, base, 1, 0)

bits_from_int(n, e) ==
    IF e <= 0 THEN Raise("eta must be > 0")
    ELSE LET bits == int_to_digits(n, 2)
         IN IF ~bits.ok THEN bits
            ELSE IF Len(bits.val) > e THEN Raise("eta too small to represent n")
            ELSE [ok |-> TRUE,
                  val |-> [i \in 1..(e - Len(bits.val)) |-> 0] \o bits.val]

base_convert_digits(digits, base_from, base_to) ==
    LET n == digits_to_int(digits, base_from)
    IN IF ~n.ok THEN n ELSE int_to_digits(n.val, base_to)

\* --------------------------------------------------- difference_expansion.py

floor_div2(n) == n \div 2

ceil_div2(n) == -((-n) \div 2)

embed_bit_swapped(x, y, bit) ==
    IF bit \notin {0, 1} THEN Raise("bit must be 0 or 1")
    ELSE LET d == x - y
             a == floor_div2(x + y)
             d_prime == 2 * d + bit
         IN [ok |-> TRUE,
             x_embedded |-> a + floor_div2(d_prime),
             y_embedded |-> a - ceil_div2(d_prime)]

embed_bit(x, y, bit) ==
    IF bit \notin {0, 1} THEN Raise("bit must be 0 or 1")
    ELSE LET d == x - y
             a == floor_div2(x + y)
             d_prime == 2 * d + bit
         IN [ok |-> TRUE,
             x_embedded |-> a + ceil_div2(d_prime),
             y_embedded |-> a - floor_div2(d_prime)]

extract_bit_and_restore(x_prime, y_prime) ==
    LET d_prime == x_prime - y_prime
        bit == d_prime % 2
        d == floor_div2(d_prime)
        a == floor_div2(x_prime + y_prime)
    IN [bit |-> bit, x |-> a + ceil_div2(d), y |-> a - floor_div2(d)]

\* ------------------------------------------------------------------ graph.py

\* A heap is a record of two functions over node ids: next and digit, each a
\* node id or NoneNode.  A Node reference is a node id (identity = equality).

encode_watermark(zeta6) ==
    LET mu == Len(zeta6)
    IN IF mu <= 0 THEN Raise("zeta6 must be non-empty")
       ELSE [ok |-> TRUE,
             heap |-> [next |-> [r \in 0..(mu - 1) |-> (r + 1) % mu],
                       digit |-> [r \in 0..(mu - 1) |->
                                     IF zeta6[r + 1] = 0 THEN NoneNode
                                     ELSE (r + zeta6[r + 1] - 1) % mu]],
             head |-> 0]

RECURSIVE collect_ring(_, _, _, _)
\* the first loop of decode_watermark: nodes collected so far, cur the last
\* one, k nodes still to collect
collect_ring(heap, nodes, cur, k) ==
    IF k = 0 THEN [ok |-> TRUE, val |-> nodes]
    ELSE IF cur = NoneNode THEN Raise("attribute error: None has no next")
    ELSE IF heap.next[cur] = NoneNode THEN Raise("invalid structure (broken ring)")
    ELSE collect_ring(heap, Append(nodes, heap.next[cur]), heap.next[cur], k - 1)

RECURSIVE digit_walk(_, _, _, _, _)
\* the while loop of decode_watermark: s steps made, probe the node reached
digit_walk(heap, probe, target, s, mu) ==
    IF probe = target THEN [ok |-> TRUE, val |-> s]
    ELSE IF heap.next[probe] = NoneNode THEN Raise("invalid structure (broken ring)")
    ELSE IF s + 1 > mu THEN Raise("invalid structure (unreachable digit)")
    ELSE digit_walk(heap, heap.next[probe], target, s + 1, mu)

RECURSIVE decode_digits(_, _, _, _, _)
\* the second loop of decode_watermark from ring position r (1-based) on
decode_digits(heap, nodes, mu, r, zeta6) ==
    IF r > mu THEN [ok |-> TRUE, val |-> zeta6]
    ELSE LET nr == nodes[r]
         IN IF nr = NoneNode THEN Raise("attribute error: None has no digit")
            ELSE IF heap.digit[nr] = NoneNode
                 THEN decode_digits(heap, nodes, mu, r + 1, Append(zeta6, 0))
                 ELSE LET w == digit_walk(heap, nr, heap.digit[nr], 0, mu)
                      IN IF ~w.ok THEN w
                         ELSE decode_digits(heap, nodes, mu, r + 1,
                                            Append(zeta6, w.val + 1))

decode_watermark(heap, head, mu) ==
    IF mu <= 0 THEN Raise("mu must be > 0")
    ELSE LET ring == collect_ring(heap, <<head>>, head, mu - 1)
         IN IF ~ring.ok THEN ring
            ELSE decode_digits(heap, ring.val, mu, 1, <<>>)

\* ----------------------------------------------------------------- crypto.py

\* A key stands for the keyed hash it fixes:
\*   key.draws[i]  the accepted draw j in [0, i] of step i of the shuffle
\*   key.kidx[p]   the accepted draw in [0, eta) of keyed_index for pair p
\*   key.kbit      the tie-break bits known so far, a set of <<label, bit>>
\*                 with label = <<j, o, z>>

keyed_bit(k, label) == CHOOSE b \in {0, 1} : <<label, b>> \in k.kbit

keyed_index(p, e, k) ==
    IF e <= 0 THEN Raise("eta must be > 0")
    ELSE [ok |-> TRUE, val |-> k.kidx[p]]

Swap(P, a, b) == [P EXCEPT ![a] = P[b], ![b] = P[a]]

RECURSIVE keyed_permutation_loop(_, _, _, _)
\* the for loop of keyed_permutation from step i on
keyed_permutation_loop(k, n, i, P) ==
    IF i > n - 2 THEN P
    ELSE keyed_permutation_loop(k, n, i + 1, Swap(P, i + 1, k.draws[i] + 1))

keyed_permutation(k, n) ==
    IF n < 0 THEN Raise("n must be >= 0")
    ELSE [ok |-> TRUE,
          val |-> keyed_permutation_loop(k, n, 0, [i \in 1..n |-> i - 1])]

\* ---------------------------------------------------------------- encoder.py

SeqRange(s) == {s[i] : i \in 1..Len(s)}

\* {keyed_index(p, eta, key) for p in P}, for eta > 0
Covered(P, e, k) == {keyed_index(P[i], e, k).val : i \in 1..Len(P)}

compute_permutation_nocover(params_len, k, e) ==
    IF params_len < 2 THEN Raise("Need at least 2 parameters (one pair).")
    ELSE IF params_len \div 2 < e THEN Raise("Not enough parameter pairs")
    ELSE IF e <= 0 THEN Raise("eta must be > 0")
    ELSE [ok |-> TRUE, val |-> keyed_permutation(k, params_len \div 2).val]

compute_permutation(params_len, k, e) ==
    IF params_len < 2 THEN Raise("Need at least 2 parameters (one pair).")
    ELSE LET n_pairs == params_len \div 2
         IN IF n_pairs < e THEN Raise("Not enough parameter pairs")
            ELSE LET P == keyed_permutation(k, n_pairs).val
                 IN IF e <= 0 THEN keyed_index(P[1], e, k)
                    ELSE IF Cardinality(Covered(P, e, k)) < e
                         THEN Raise("Insufficient KEYED_INDEX coverage")
                         ELSE [ok |-> TRUE, val |-> P]

RECURSIVE hints_detection_loop(_, _, _, _)
\* the for loop of hints_detection over P from position i on
hints_detection_loop(I, P, i, gamma) ==
    IF i > Len(P) THEN gamma
    ELSE LET p == P[i]
             x == I[2 * p + 1]
             y == I[2 * p + 2]
         IN hints_detection_loop(I, P, i + 1,
                                 [gamma EXCEPT ![p + 1] = (x - y) % 2])

hints_detection(I, P) ==
    hints_detection_loop(I, P, 1, [i \in 1..(Len(I) \div 2) |-> 0])

\* ones[j] and zeros[j] of code_builder after its first loop
Ones(gamma, e, k, P, j) ==
    Cardinality({i \in 1..Len(P) :
        keyed_index(P[i], e, k).val = j /\ gamma[P[i] + 1] = 1})

Zeros(gamma, e, k, P, j) ==
    Cardinality({i \in 1..Len(P) :
        keyed_index(P[i], e, k).val = j /\ gamma[P[i] + 1] # 1})

\* the label of the tie-break of position j
ChaosLabel(gamma, e, k, P, j) ==
    <<j, Ones(gamma, e, k, P, j), Zeros(gamma, e, k, P, j)>>

\* whether position j takes the else branch of the second loop of code_builder
TieBreak(gamma, e, k, P, j) ==
    LET o == Ones(gamma, e, k, P, j)
        z == Zeros(gamma, e, k, P, j)
    IN ~(o > 0 /\ z = 0) /\ ~(z > 0 /\ o = 0)

code_builder(gamma, e, k, P) ==
    [i \in 1..e |->
        LET j == i - 1
            o == Ones(gamma, e, k, P, j)
            z == Zeros(gamma, e, k, P, j)
        IN IF o > 0 /\ z = 0 THEN 1
           ELSE IF z > 0 /\ o = 0 THEN 0
           ELSE keyed_bit(k, <<j, o, z>>)]

RECURSIVE embed_loop(_, _, _, _)
\* the embedding loop of prepare_parameters over P from position i on
embed_loop(I, P, gamma, i) ==
    IF i > Len(P) THEN I
    ELSE LET p == P[i]
             emb == embed_bit(I[2 * p + 1], I[2 * p + 2], gamma[p + 1])
         IN embed_loop([I EXCEPT ![2 * p + 1] = emb.x_embedded,
                                 ![2 * p + 2] = emb.y_embedded], P, gamma, i + 1)

Scatter_by_pair(n_pairs, P, zeta2, e, k) ==
    [q \in 1..n_pairs |-> zeta2[((q - 1) % e) + 1]]

\* the scatter loop of prepare_parameters: gamma[p] = zeta2[keyed_index(p)]
Scatter(n_pairs, P, zeta2, e, k) ==
    [q \in 1..n_pairs |->
        IF (q - 1) \in SeqRange(P)
        THEN zeta2[keyed_index(q - 1, e, k).val + 1] ELSE 0]

prepare_parameters(ps, k, z, e) ==
    IF z < 0 THEN Raise("zeta must be non-negative")
    ELSE LET P == compute_permutation(Len(ps), k, e)
         IN IF ~P.ok THEN P
            ELSE LET zeta2 == bits_from_int(z, e)
                 IN IF ~zeta2.ok THEN zeta2
                    ELSE [ok |-> TRUE,
                          watermarked_params |->
                              embed_loop(ps, P.val,
                                         Scatter(Len(ps) \div 2, P.val,
                                                 zeta2.val, e, k), 1),
                          permutation |-> P.val,
                          eta |-> e]

build_watermark_graph(rp, k, e) ==
    LET P == compute_permutation(Len(rp), k, e)
    IN IF ~P.ok THEN P
       ELSE LET gamma_detected == hints_detection(rp, P.val)
                zeta2_hat == code_builder(gamma_detected, e, k, P.val)
                zeta6_hat == base_convert_digits(zeta2_hat, 2, 6)
            IN IF ~zeta6_hat.ok THEN zeta6_hat
               ELSE LET g == encode_watermark(zeta6_hat.val)
                    IN IF ~g.ok THEN g
                       ELSE [ok |-> TRUE, heap |-> g.heap, graph_head |-> g.head,
                             permutation |-> P.val, eta |-> e]

RECURSIVE restore_loop(_, _, _)
\* the for loop of restore_params_from_pairs over P from position i on
restore_loop(I, P, i) ==
    IF i > Len(P) THEN I
    ELSE LET p == P[i]
             r == extract_bit_and_restore(I[2 * p + 1], I[2 * p + 2])
         IN restore_loop([I EXCEPT ![2 * p + 1] = r.x, ![2 * p + 2] = r.y],
                         P, i + 1)

restore_params_skipfirst(watermarked_params, P) ==
    restore_loop(watermarked_params, P, 2)

restore_params_from_pairs(watermarked_params, P) ==
    restore_loop(watermarked_params, P, 1)

\* ------------------------------------------------------------- controller.py

\* VerificationResult, with raised = TRUE when controller_verify itself raises
Result(auth, rz, rz6, error) ==
    [raised |-> FALSE, is_authentic |-> auth, recovered_zeta |-> rz,
     recovered_zeta6 |-> rz6, error |-> error]

controller_verify_propagate(heap, graph_head, expected_zeta) ==
    IF expected_zeta < 0
    THEN [raised |-> TRUE, err |-> "expected_zeta must be non-negative"]
    ELSE LET mu == Len(int_to_digits(expected_zeta, 6).val)
             rz6 == decode_watermark(heap, graph_head, mu)
         IN IF ~rz6.ok THEN [raised |-> TRUE, err |-> rz6.err]
            ELSE LET rz == digits_to_int(rz6.val, 6)
                 IN IF ~rz.ok THEN [raised |-> TRUE, err |-> rz.err]
                    ELSE Result(rz.val = expected_zeta, <<rz.val>>,
                                <<rz6.val>>, <<>>)

controller_verify(heap, graph_head, expected_zeta) ==
    IF expected_zeta < 0
    THEN [raised |-> TRUE, err |-> "expected_zeta must be non-negative"]
    ELSE LET expected_zeta6 == int_to_digits(expected_zeta, 6).val
             mu == Len(expected_zeta6)
             rz6 == decode_watermark(heap, graph_head, mu)
         IN IF ~rz6.ok THEN Result(FALSE, <<>>, <<>>, <<rz6.err>>)
            ELSE LET rz == digits_to_int(rz6.val, 6)
                 IN IF ~rz.ok THEN Result(FALSE, <<>>, <<>>, <<rz.err>>)
                    ELSE Result(rz.val = expected_zeta, <<rz.val>>,
                                <<rz6.val>>, <<>>)

\* ------------------------------------------------------------------- wrap.py

\* the protected inner function, uninterpreted: its result names its argument
Func(a) == [f_of |-> a]

\* what a call of the wrapper does: raised or returned, the value returned
\* (<<>> is None), and the argument lists the inner function was called with
Outcome(raised, value, calls, err) ==
    [raised |-> raised, value |-> value, calls |-> calls, err |-> err]

wrapped_raw(rp, k, z, e, on_tamper) ==
    LET b == build_watermark_graph(rp, k, e)
    IN IF ~b.ok THEN Outcome(TRUE, <<>>, <<>>, b.err)
       ELSE LET v == controller_verify(b.heap, b.graph_head, z)
            IN IF v.raised THEN Outcome(TRUE, <<>>, <<>>, v.err)
               ELSE IF v.is_authentic \/ on_tamper = "call_anyway"
                    THEN Outcome(FALSE, <<Func(rp)>>, <<rp>>, "")
                    ELSE IF on_tamper = "return_none"
                         THEN Outcome(FALSE, <<>>, <<>>, "")
                         ELSE Outcome(TRUE, <<>>, <<>>,
                                      "Parameter authentication failed")

wrapped(rp, k, z, e, on_tamper) ==
    LET b == build_watermark_graph(rp, k, e)
    IN IF ~b.ok THEN Outcome(TRUE, <<>>, <<>>, b.err)
       ELSE LET v == controller_verify(b.heap, b.graph_head, z)
            IN IF v.raised THEN Outcome(TRUE, <<>>, <<>>, v.err)
               ELSE IF v.is_authentic
                    THEN LET r == restore_params_from_pairs(rp, b.permutation)
                         IN Outcome(FALSE, <<Func(r)>>, <<r>>, "")
                    ELSE IF on_tamper = "call_anyway"
                         THEN Outcome(FALSE, <<Func(rp)>>, <<rp>>, "")
                         ELSE IF on_tamper = "return_none"
                              THEN Outcome(FALSE, <<>>, <<>>, "")
                              ELSE Outcome(TRUE, <<>>, <<>>,
                                           "Parameter authentication failed")

\* ------------------------------------------------------------ input domains

\* parameter values: negative, zero, positive; odd and even differences
Vals == {-1, 0, 2}

RECURSIVE SeqsUpTo(_, _)
\* every sequence over S of length at most n
SeqsUpTo(S, n) ==
    IF n = 0 THEN {<<>>}
    ELSE LET shorter == SeqsUpTo(S, n - 1)
         IN shorter \cup {Append(s, v) : s \in {t \in shorter : Len(t) = n - 1},
                                         v \in S}

\* the pairs (x, y) the lists are made of: x < y, x > y and x = y, odd and
\* even differences, negative, zero and positive values
PairVals == {<<-1, 0>>, <<2, -1>>, <<0, 0>>, <<0, 2>>}

RECURSIVE Flatten(_)
Flatten(ps) == IF ps = <<>> THEN <<>> ELSE Head(ps) \o Flatten(Tail(ps))

\* the lists of at most maxlen values: pairs of PairVals, then for an odd
\* length one more value of Vals
ParamLists(maxlen) ==
    {l \in {Flatten(ps) \o t : ps \in SeqsUpTo(PairVals, maxlen \div 2),
                               t \in {<<>>} \cup {<<v>> : v \in Vals}} :
        Len(l) <= maxlen}

Max(a, b) == IF a > b THEN a ELSE b

\* the draws of the shuffle a key can produce: step i draws j in [0, i]
DrawFns(n) == {f \in [0..(n - 2) -> 0..Max(n - 2, 0)] :
                  \A i \in 0..(n - 2) : f[i] <= i}

\* the keys over n pairs for bit length e, no tie-break bit asked yet.  For
\* e > n or e <= 0 compute_permutation raises before it reads keyed_index, so
\* one index table stands for all of them.
Keys(n, e) ==
    {[draws |-> d, kidx |-> t, kbit |-> {}] :
        d \in DrawFns(n),
        t \in [0..(n - 1) -> 0..(IF e > n THEN 0 ELSE Max(e - 1, 0))]}

\* the tie-break labels code_builder would ask for on the list rp
NeededLabels(rp, k, e) ==
    LET P == compute_permutation(Len(rp), k, e)
    IN IF ~P.ok THEN {}
       ELSE LET gamma == hints_detection(rp, P.val)
            IN {ChaosLabel(gamma, e, k, P.val, j) : j \in
                   {jj \in 0..(e - 1) : TieBreak(gamma, e, k, P.val, jj)}}

\* the keys that extend k by an answer of the keyed hash to every label of L
\* it has not answered yet
Resolved(k, L) ==
    LET open == {l \in L : \A b \in {0, 1} : <<l, b>> \notin k.kbit}
    IN {[k EXCEPT !.kbit = @ \cup {<<l, f[l]>> : l \in open}] :
           f \in [open -> {0, 1}]}

NoRec == [ok |-> FALSE, err |-> "not run"]
NoCall == Outcome(FALSE, <<>>, <<>>, "not run")
NoDE == [x |-> 0, y |-> 0, bit |-> 0, xe |-> 0, ye |-> 0,
         out |-> [bit |-> 0, x |-> 0, y |-> 0]]
NoGr == [zeta6 |-> <<>>, enc |-> NoRec, dec |-> NoRec]
NoPerm == [n |-> 0, out |-> NoRec]

\* ------------------------------------------------------------------ actions

\* client: prepare_parameters; the watermarked list is what the server receives
Prepare ==
    /\ pc = "start"
    /\ prepared' = prepare_parameters(params, key, zeta, eta)
    /\ pc' = IF prepared'.ok THEN "prepared" ELSE "failed"
    /\ received' = IF prepared'.ok THEN prepared'.watermarked_params ELSE <<>>
    /\ UNCHANGED <<perm, params, key, zeta, eta, build, vr, restored, policy, call,
                   de, gr>>

\* server: build_watermark_graph on the received list
Build ==
    /\ pc = "prepared"
    /\ \E k \in Resolved(key, NeededLabels(received, key, eta)) :
          /\ key' = k
          /\ build' = build_watermark_graph(received, k, eta)
    /\ pc' = IF build'.ok THEN "built" ELSE "buildfailed"
    /\ UNCHANGED <<perm, params, zeta, eta, prepared, received, vr, restored, policy,
                   call, de, gr>>

\* controller: controller_verify on the built graph
Verify ==
    /\ pc = "built"
    /\ vr' = controller_verify(build.heap, build.graph_head, zeta)
    /\ pc' = "verified"
    /\ UNCHANGED <<perm, params, key, zeta, eta, prepared, received, build, restored,
                   policy, call, de, gr>>

\* server: restore_params_from_pairs with the permutation build returned
Restore ==
    /\ pc = "verified"
    /\ restored' = restore_params_from_pairs(received, build.permutation)
    /\ pc' = "restored"
    /\ UNCHANGED <<perm, params, key, zeta, eta, prepared, received, build, vr,
                   policy, call, de, gr>>

Init ==
    /\ perm = NoPerm
    /\ pc = "start"
    /\ params \in ParamLists(MaxLen)
    /\ eta \in -1..MaxEta
    /\ zeta \in -1..(2 ^ Max(eta, 0))
    /\ key \in Keys(Len(params) \div 2, eta)
    /\ prepared = NoRec
    /\ received = <<>>
    /\ build = NoRec
    /\ vr = NoRec
    /\ restored = <<>>
    /\ policy = "raise"
    /\ call = NoCall
    /\ de = NoDE
    /\ gr = NoGr

Next == Prepare \/ Build \/ Verify \/ Restore

Spec == Init /\ [][Next]_vars

\* --------------------------------------------- difference expansion alone

\* embed_bit on the pair (de.x, de.y)
Embed ==
    /\ pc = "de_start"
    /\ LET emb == embed_bit(de.x, de.y, de.bit)
       IN IF emb.ok
          THEN /\ de' = [de EXCEPT !.xe = emb.x_embedded, !.ye = emb.y_embedded]
               /\ pc' = "embedded"
          ELSE /\ de' = de
               /\ pc' = "de_failed"
    /\ UNCHANGED <<perm, params, key, zeta, eta, prepared, received, build, vr,
                   restored, policy, call, gr>>

\* extract_bit_and_restore on the embedded pair
Extract ==
    /\ pc = "embedded"
    /\ de' = [de EXCEPT !.out = extract_bit_and_restore(de.xe, de.ye)]
    /\ pc' = "extracted"
    /\ UNCHANGED <<perm, params, key, zeta, eta, prepared, received, build, vr,
                   restored, policy, call, gr>>

InitDE ==
    /\ perm = NoPerm
    /\ pc = "de_start"
    /\ \E x \in -MaxAbs..MaxAbs, y \in -MaxAbs..MaxAbs, b \in 0..2 :
          de = [NoDE EXCEPT !.x = x, !.y = y, !.bit = b]
    /\ params = <<>> /\ key = [draws |-> <<>>, kidx |-> <<>>, kbit |-> {}]
    /\ zeta = 0 /\ eta = 0
    /\ prepared = NoRec /\ received = <<>> /\ build = NoRec /\ vr = NoRec
    /\ restored = <<>> /\ policy = "raise" /\ call = NoCall /\ gr = NoGr

NextDE == Embed \/ Extract

SpecDE == InitDE /\ [][NextDE]_vars

\* ------------------------------------------------------ watermark graph alone

\* encode_watermark on the digit array gr.zeta6
Encode ==
    /\ pc = "g_start"
    /\ gr' = [gr EXCEPT !.enc = encode_watermark(gr.zeta6)]
    /\ pc' = IF gr'.enc.ok THEN "encoded" ELSE "g_failed"
    /\ UNCHANGED <<perm, params, key, zeta, eta, prepared, received, build, vr,
                   restored, policy, call, de>>

\* decode_watermark on the encoded graph with mu the length of the digit array
Decode ==
    /\ pc = "encoded"
    /\ gr' = [gr EXCEPT !.dec =
                 decode_watermark(gr.enc.heap, gr.enc.head, Len(gr.zeta6))]
    /\ pc' = "decoded"
    /\ UNCHANGED <<perm, params, key, zeta, eta, prepared, received, build, vr,
                   restored, policy, call, de>>

InitGraph ==
    /\ perm = NoPerm
    /\ pc = "g_start"
    /\ \E d \in SeqsUpTo(0..5, MaxMu) : gr = [NoGr EXCEPT !.zeta6 = d]
    /\ params = <<>> /\ key = [draws |-> <<>>, kidx |-> <<>>, kbit |-> {}]
    /\ zeta = 0 /\ eta = 0
    /\ prepared = NoRec /\ received = <<>> /\ build = NoRec /\ vr = NoRec
    /\ restored = <<>> /\ policy = "raise" /\ call = NoCall /\ de = NoDE

NextGraph == Encode \/ Decode

SpecGraph == InitGraph /\ [][NextGraph]_vars

\* ------------------------------------------- controller on arbitrary heaps

\* every heap of n nodes: next and digit of a node are any node or None
Heaps(n) ==
    {[next |-> nx, digit |-> dg] :
        nx \in [0..(n - 1) -> {NoneNode} \cup 0..(n - 1)],
        dg \in [0..(n - 1) -> {NoneNode} \cup 0..(n - 1)]}

\* expected codes: a negative one, the small ones, and one of every digit
\* count up to MaxMu + 1
ExpectedCodes == (-1..MaxCode) \cup {6 ^ m : m \in 2..MaxMu}

InitCtl ==
    /\ perm = NoPerm
    /\ pc = "built"
    /\ \E h \in Heaps(MaxNodes), hd \in {NoneNode} \cup 0..(MaxNodes - 1) :
          build = [ok |-> TRUE, heap |-> h, graph_head |-> hd,
                   permutation |-> <<>>, eta |-> 0]
    /\ zeta \in ExpectedCodes
    /\ params = <<>> /\ key = [draws |-> <<>>, kidx |-> <<>>, kbit |-> {}]
    /\ eta = 0
    /\ prepared = NoRec /\ received = <<>> /\ vr = NoRec
    /\ restored = <<>> /\ policy = "raise" /\ call = NoCall /\ de = NoDE
    /\ gr = NoGr

NextCtl == Verify

SpecCtl == InitCtl /\ [][NextCtl]_vars

\* ------------------------------------------------ tampering and the wrapper

\* the indices at which the received list differs from the prepared one
Changed == {i \in 1..Len(received) :
               received[i] # prepared.watermarked_params[i]}

\* what an attacker adds to a value: 1 changes the parity of the pair's
\* difference, 2 keeps it
Deltas == {1, 2}

Policies == {"raise", "return_none", "call_anyway"}

\* the attacker changes one more value of the list in transit
Tamper ==
    /\ pc = "prepared"
    /\ Cardinality(Changed) < MaxTamper
    /\ \E i \in (1..Len(received)) \ Changed, d \in Deltas :
          received' = [received EXCEPT ![i] = @ + d]
    /\ UNCHANGED <<perm, pc, params, key, zeta, eta, prepared, build, vr, restored,
                   policy, call, de, gr>>

\* server: a call of the function protected with on_tamper = pol
ProtectedCall ==
    /\ pc = "prepared"
    /\ \E pol \in Policies,
          k \in Resolved(key, NeededLabels(received, key, eta)) :
          /\ key' = k
          /\ policy' = pol
          /\ call' = wrapped(received, k, zeta, eta, pol)
    /\ pc' = "called"
    /\ UNCHANGED <<perm, params, zeta, eta, prepared, received, build, vr, restored,
                   de, gr>>

\* the attacker changes the difference parity of one more pair by adding 1 to
\* its first value
FlipPair ==
    /\ pc = "prepared"
    /\ LET flipped == {p \in 0..(Len(received) \div 2 - 1) :
                          received[2 * p + 1] # prepared.watermarked_params[2 * p + 1]}
       IN /\ Cardinality(flipped) < MaxTamper
          /\ \E p \in (0..(Len(received) \div 2 - 1)) \ flipped :
                received' = [received EXCEPT ![2 * p + 1] = @ + 1]
    /\ UNCHANGED <<perm, pc, params, key, zeta, eta, prepared, build, vr, restored,
                   policy, call, de, gr>>

\* the lists of the repository's tests: 1, 2, ..., n
RangeList(n) == [i \in 1..n |-> i]

InitWrap ==
    /\ perm = NoPerm
    /\ pc = "start"
    /\ params \in {RangeList(n) : n \in 2..MaxLen}
    /\ eta \in 1..MaxEta
    /\ zeta \in 0..(2 ^ eta - 1)
    /\ key \in Keys(Len(params) \div 2, eta)
    /\ prepared = NoRec /\ received = <<>> /\ build = NoRec /\ vr = NoRec
    /\ restored = <<>> /\ policy = "raise" /\ call = NoCall /\ de = NoDE
    /\ gr = NoGr

NextWrap == Prepare \/ Tamper \/ ProtectedCall

SpecWrap == InitWrap /\ [][NextWrap]_vars

InitTamper ==
    /\ perm = NoPerm
    /\ pc = "start"
    /\ params = RangeList(TamperLen)
    /\ eta \in 1..TamperEta
    /\ zeta \in 0..(2 ^ eta - 1)
    /\ key \in Keys(Len(params) \div 2, eta)
    /\ prepared = NoRec /\ received = <<>> /\ build = NoRec /\ vr = NoRec
    /\ restored = <<>> /\ policy = "raise" /\ call = NoCall /\ de = NoDE
    /\ gr = NoGr

NextTamper == Prepare \/ FlipPair \/ Build \/ Verify

SpecTamper == InitTamper /\ [][NextTamper]_vars

\* ------------------------------------------- claims on the authentic pipeline

\* the conditions under which C9 says prepare fails
PrepareMustFail ==
    \/ zeta < 0
    \/ eta <= 0
    \/ Len(params) < 2
    \/ Len(params) \div 2 < eta
    \/ Cardinality({key.kidx[p] : p \in 0..(Len(params) \div 2 - 1)}) < eta
    \/ zeta >= 2 ^ eta

\* the hint vector the server detects in the received list
GammaReceived == hints_detection(received, build.permutation)

\* C1: the graph built from an unmodified prepared list verifies as authentic
\* with recovered_zeta = zeta, for every key, eta > 0, zeta in [0, 2^eta) and
\* list that passes the coverage check.
C1_AuthenticRoundTrip ==
    pc \in {"verified", "restored"} =>
        /\ ~vr.raised
        /\ vr.is_authentic
        /\ vr.recovered_zeta = <<zeta>>

\* C2: restoring the prepared list with the permutation of prepare (which is
\* also the permutation build returns) gives back params element for element.
C2_RestoreRoundTrip ==
    /\ pc \in {"built", "verified", "restored"} =>
           build.permutation = prepared.permutation
    /\ pc = "restored" =>
           /\ restored = params
           /\ Len(restored) = Len(params)

\* C2 witness: an odd-length list with a negative, a zero and a positive value,
\* changed by the embedding, has been restored.
C2_Witness ==
    /\ pc = "restored"
    /\ Len(params) % 2 = 1
    /\ {-1, 0, 2} \subseteq SeqRange(params)
    /\ received # params
    /\ restored = params

\* C9: prepare fails exactly under the listed conditions, otherwise returns a
\* list as long as its input; the input list is left as it was.
C9_PrepareFailsExactlyWhen ==
    [][(pc = "start" /\ pc' # "start") =>
          /\ params' = params
          /\ (prepared'.ok <=> ~PrepareMustFail)
          /\ prepared'.ok =>
                Len(prepared'.watermarked_params) = Len(params)]_vars

\* C9 witness: prepare has failed on the coverage check alone.
C9_Witness ==
    /\ pc = "failed"
    /\ zeta >= 0 /\ eta > 0 /\ Len(params) \div 2 >= eta /\ zeta < 2 ^ eta
    /\ prepared.err = "Insufficient KEYED_INDEX coverage"

\* C10: on an unmodified prepared list every bit position gets a vote, never
\* both a one-vote and a zero-vote, no tie-break is asked of the key, and the
\* recovered bits are bits_from_int(zeta, eta).
C10_UnanimousVotes ==
    pc \in {"built", "verified", "restored"} =>
        /\ \A j \in 0..(eta - 1) :
              LET o == Ones(GammaReceived, eta, key, build.permutation, j)
                  z == Zeros(GammaReceived, eta, key, build.permutation, j)
              IN o + z >= 1 /\ ~(o > 0 /\ z > 0)
        /\ key.kbit = {}
        /\ code_builder(GammaReceived, eta, key, build.permutation)
              = bits_from_int(zeta, eta).val

\* C10 witness: a built graph where one position has two votes and the code
\* has both a one bit and a zero bit.
C10_Witness ==
    /\ pc = "built"
    /\ eta = 2 /\ zeta = 2
    /\ \E j \in 0..(eta - 1) :
          Ones(GammaReceived, eta, key, build.permutation, j) = 2

\* ------------------------------------------- claims on difference expansion

\* C3: extract_bit_and_restore applied to embed_bit(x, y, bit) returns exactly
\* (bit, (x, y)), and the extracted bit (x' - y') mod 2 is the non-negative bit.
C3_DifferenceExpansionInverse ==
    pc = "extracted" =>
        /\ de.out = [bit |-> de.bit, x |-> de.x, y |-> de.y]
        /\ de.out.bit \in {0, 1}
        /\ de.out.bit = (de.xe - de.ye) % 2

\* C3 witness: a pair with x < y and a negative odd expanded difference has
\* been embedded with bit 1 and extracted.
C3_Witness ==
    /\ pc = "extracted"
    /\ de.x < de.y /\ de.y < 0
    /\ de.bit = 1
    /\ de.xe - de.ye < 0
    /\ de.out.bit = 1

\* ------------------------------------------------ claims on the graph alone

\* C4: decode_watermark(encode_watermark(d), mu) = d for every digit array d
\* over [0, 5] of length mu > 0, also for mu < 5.
C4_GraphInvertible ==
    pc = "decoded" => (gr.dec.ok /\ gr.dec.val = gr.zeta6)

\* ------------------------------------------------- claims on the controller

\* what decode_watermark does on the heap handed to the controller
DecodeForExpected ==
    decode_watermark(build.heap, build.graph_head,
                     Len(int_to_digits(zeta, 6).val))

\* C8: for every expected code >= 0 and every heap, controller_verify returns
\* a result without raising; a decode failure gives is_authentic = false, no
\* recovered code, no recovered digits and the failure text as error; an
\* authentic result has no error and recovered_zeta = expected code.
C8_ControllerNeverRaises ==
    (pc = "verified" /\ zeta >= 0) =>
        /\ ~vr.raised
        /\ ~DecodeForExpected.ok =>
              /\ vr.is_authentic = FALSE
              /\ vr.recovered_zeta = <<>>
              /\ vr.recovered_zeta6 = <<>>
              /\ vr.error = <<DecodeForExpected.err>>
        /\ vr.is_authentic =>
              /\ vr.error = <<>>
              /\ vr.recovered_zeta = <<zeta>>

\* C8 witness: the controller has reported a digit target off the ring as a
\* non-authentic result.
C8_Witness ==
    /\ pc = "verified"
    /\ zeta >= 0
    /\ ~vr.raised
    /\ vr.is_authentic = FALSE
    /\ vr.error = <<"invalid structure (unreachable digit)">>

\* ------------------------------------------------------ claims on tampering

Wm == prepared.watermarked_params

\* the pairs whose difference parity the attacker changed
FlippedPairs ==
    {p \in 0..(Len(received) \div 2 - 1) :
        (received[2 * p + 1] - received[2 * p + 2]) % 2
            # (Wm[2 * p + 1] - Wm[2 * p + 2]) % 2}

\* the vote positions the changed pairs vote for
AffectedPositions == {key.kidx[p] : p \in FlippedPairs}

\* C5: with on_tamper = "raise", a received list that differs in any value
\* from the prepared list makes the protected call raise without calling the
\* inner function.
C5_AnyTamperingRaises ==
    (pc = "called" /\ policy = "raise" /\ received # Wm) =>
        (call.raised /\ call.calls = <<>>)

\* C6: once the changed parities affect at least two vote positions
\* the controller reports is_authentic = false, whatever the tie-break bits.
C6_TamperAlwaysDetected ==
    (pc = "verified" /\ Cardinality(AffectedPositions) >= 2) =>
        vr.is_authentic = FALSE

\* C7: when build succeeds, an authentic verification calls the inner
\* function exactly once with the restored list and returns its result; a
\* non-authentic one raises ("raise") or returns None ("return_none") without
\* calling it, or calls it with the raw received list ("call_anyway").
C7_ProtectedCallBoundary ==
    pc = "called" =>
        LET b == build_watermark_graph(received, key, eta)
            v == controller_verify(b.heap, b.graph_head, zeta)
            r == restore_params_from_pairs(received, b.permutation)
        IN /\ b.ok
           /\ v.is_authentic =>
                 /\ call = Outcome(FALSE, <<Func(r)>>, <<r>>, "")
                 /\ received = Wm => call.calls = <<params>>
           /\ (~v.is_authentic /\ policy = "raise") =>
                 (call.raised /\ call.calls = <<>> /\ call.value = <<>>)
           /\ (~v.is_authentic /\ policy = "return_none") =>
                 (~call.raised /\ call.calls = <<>> /\ call.value = <<>>)
           /\ (~v.is_authentic /\ policy = "call_anyway") =>
                 call = Outcome(FALSE, <<Func(received)>>, <<received>>, "")

\* C7 witness: an authentic call has passed the restored list, which is the
\* original list and not the watermarked one, to the inner function.
C7_Witness ==
    /\ pc = "called"
    /\ ~call.raised
    /\ call.calls = <<params>>
    /\ call.value = <<Func(params)>>
    /\ received # params


\* ------------------------------------------------- decode on arbitrary heaps

\* decode_watermark on the heap gr.enc from the head gr.enc.head with the
\* ring length gr.mu
DecodeHeap ==
    /\ pc = "h_start"
    /\ gr' = [gr EXCEPT !.dec =
                 decode_watermark(gr.enc.heap, gr.enc.head, gr.mu)]
    /\ pc' = "h_decoded"
    /\ UNCHANGED <<perm, params, key, zeta, eta, prepared, received, build, vr,
                   restored, policy, call, de>>

InitDecode ==
    /\ perm = NoPerm
    /\ pc = "h_start"
    /\ \E h \in Heaps(MaxNodes), hd \in {NoneNode} \cup 0..(MaxNodes - 1),
          m \in 0..MaxMu :
          gr = [zeta6 |-> <<>>,
                enc |-> [ok |-> TRUE, heap |-> h, head |-> hd],
                dec |-> NoRec, mu |-> m]
    /\ params = <<>> /\ key = [draws |-> <<>>, kidx |-> <<>>, kbit |-> {}]
    /\ zeta = 0 /\ eta = 0
    /\ prepared = NoRec /\ received = <<>> /\ build = NoRec /\ vr = NoRec
    /\ restored = <<>> /\ policy = "raise" /\ call = NoCall /\ de = NoDE

NextDecode == DecodeHeap

SpecDecode == InitDecode /\ [][NextDecode]_vars

RECURSIVE digit_walk_steps(_, _, _, _, _)
\* the next relations the while loop of decode_watermark follows before it
\* ends or raises
digit_walk_steps(heap, probe, target, s, mu) ==
    IF probe = target THEN s
    ELSE IF heap.next[probe] = NoneNode THEN s + 1
    ELSE IF s + 1 > mu THEN s + 1
    ELSE digit_walk_steps(heap, heap.next[probe], target, s + 1, mu)

\* ------------------------------------------------- claims on decode alone

RECURSIVE Follow(_, _, _)
\* the node k next relations away from n, None once a next is missing
Follow(heap, n, k) ==
    IF k = 0 \/ n = NoneNode THEN n ELSE Follow(heap, heap.next[n], k - 1)

\* the nodes at distance 0..mu-1 from the head
RingNodes(heap, head, mu) == {Follow(heap, head, k) : k \in 0..(mu - 1)}

\* the next relation from head is a single cycle of length exactly mu
SingleCycle(heap, head, mu) ==
    /\ head # NoneNode
    /\ Follow(heap, head, mu) = head
    /\ \A k \in 1..(mu - 1) : Follow(heap, head, k) # head

\* every present digit relation of a ring node targets a ring node
DigitsOnRing(heap, head, mu) ==
    \A n \in RingNodes(heap, head, mu) \ {NoneNode} :
        heap.digit[n] # NoneNode => heap.digit[n] \in RingNodes(heap, head, mu)

WellFormedRing(heap, head, mu) ==
    SingleCycle(heap, head, mu) /\ DigitsOnRing(heap, head, mu)

\* the ring positions whose digit walk decode_watermark runs: the digit is
\* present and no earlier walk has raised
WalksRun(heap, head, mu) ==
    LET ring == collect_ring(heap, <<head>>, head, mu - 1)
    IN IF ~ring.ok THEN {}
       ELSE {r \in 1..mu :
                /\ heap.digit[ring.val[r]] # NoneNode
                /\ \A q \in 1..(r - 1) :
                      \/ heap.digit[ring.val[q]] = NoneNode
                      \/ digit_walk(heap, ring.val[q],
                                    heap.digit[ring.val[q]], 0, mu).ok}

StructureErrors ==
    {"invalid structure (broken ring)", "invalid structure (unreachable digit)"}

\* C11: decode_watermark(head, mu) returns a digit array only when the next
\* relation from head is a single cycle of length exactly mu and every present
\* digit relation targets a node of that cycle; on any other graph it fails
\* with broken ring or unreachable digit; and no digit walk follows more than
\* mu next relations.
C11_StructuralDetection ==
    (pc = "h_decoded" /\ gr.mu > 0 /\ gr.enc.head # NoneNode) =>
        LET heap == gr.enc.heap
            head == gr.enc.head
            ring == collect_ring(heap, <<head>>, head, gr.mu - 1)
        IN /\ gr.dec.ok => WellFormedRing(heap, head, gr.mu)
           /\ ~WellFormedRing(heap, head, gr.mu) =>
                 (~gr.dec.ok /\ gr.dec.err \in StructureErrors)
           /\ \A r \in WalksRun(heap, head, gr.mu) :
                 digit_walk_steps(heap, ring.val[r], heap.digit[ring.val[r]],
                                  0, gr.mu) <= gr.mu

\* C11, the part that holds: a failure of decode_watermark on a head that is
\* a node is broken ring or unreachable digit, and a well-formed ring of
\* length mu is always decoded.
C11_FailuresAreStructural ==
    (pc = "h_decoded" /\ gr.mu > 0 /\ gr.enc.head # NoneNode) =>
        /\ ~gr.dec.ok => gr.dec.err \in StructureErrors
        /\ WellFormedRing(gr.enc.heap, gr.enc.head, gr.mu) => gr.dec.ok


\* ------------------------------------------------- keyed_permutation alone

\* keyed_permutation(seed, n) under the key whose accepted draws are key.draws
Permute ==
    /\ pc = "p_start"
    /\ perm' = [perm EXCEPT !.out = keyed_permutation(key, perm.n)]
    /\ pc' = "permuted"
    /\ UNCHANGED <<params, key, zeta, eta, prepared, received, build, vr,
                   restored, policy, call, de, gr>>

InitPerm ==
    /\ pc = "p_start"
    /\ \E n \in 0..MaxPerm :
          /\ perm = [n |-> n, out |-> NoRec]
          /\ \E d \in DrawFns(n) :
                key = [draws |-> d, kidx |-> <<>>, kbit |-> {}]
    /\ params = <<>> /\ zeta = 0 /\ eta = 0
    /\ prepared = NoRec /\ received = <<>> /\ build = NoRec /\ vr = NoRec
    /\ restored = <<>> /\ policy = "raise" /\ call = NoCall /\ de = NoDE
    /\ gr = NoGr

NextPerm == Permute

SpecPerm == InitPerm /\ [][NextPerm]_vars

\* ------------------------------------------- claims on keyed_permutation

\* the permutations of [0, n) as lists
PermsOfRange(n) ==
    {q \in [1..n -> 0..(n - 1)] : \A a, b \in 1..n : q[a] = q[b] => a = b}

\* the draw sequences under which keyed_permutation(seed, n) returns q
DrawsGiving(n, q) ==
    {d \in DrawFns(n) :
        keyed_permutation([draws |-> d, kidx |-> <<>>, kbit |-> {}], n).val = q}

\* C12: keyed_permutation(seed, n) returns a permutation of [0, n), and with
\* every accepted draw a free choice every permutation of [0, n) is returned
\* under some draw sequence, each under the same number of draw sequences.
C12_UnbiasedShuffle ==
    pc = "permuted" =>
        /\ perm.out.ok
        /\ perm.out.val \in PermsOfRange(perm.n)
        /\ \A q \in PermsOfRange(perm.n) :
              /\ DrawsGiving(perm.n, q) # {}
              /\ Cardinality(DrawsGiving(perm.n, q))
                    = Cardinality(DrawsGiving(perm.n, [i \in 1..perm.n |-> i - 1]))

\* C12, the part that holds: the result is a permutation of [0, n) whose last
\* position is never moved, and the permutations of the first n - 1 positions
\* are each returned under exactly one draw sequence.
C12_ShuffleOfAllButLast ==
    pc = "permuted" =>
        /\ perm.out.ok
        /\ perm.out.val \in PermsOfRange(perm.n)
        /\ perm.n > 0 => perm.out.val[perm.n] = perm.n - 1
        /\ DrawsGiving(perm.n, perm.out.val) = {key.draws}


\* ------------------------------------- build and verify on any received list

\* the server is handed any list, with any key and eta, and the controller
\* any expected code >= 0
InitAccept ==
    /\ perm = NoPerm
    /\ pc = "prepared"
    /\ received \in ParamLists(MaxLen)
    /\ eta \in 1..MaxEta
    /\ key \in Keys(Len(received) \div 2, eta)
    /\ zeta \in 0..MaxCode
    /\ params = <<>>
    /\ prepared = NoRec
    /\ build = NoRec
    /\ vr = NoRec
    /\ restored = <<>>
    /\ policy = "raise"
    /\ call = NoCall
    /\ de = NoDE
    /\ gr = NoGr

NextAccept == Build \/ Verify

SpecAccept == InitAccept /\ [][NextAccept]_vars

\* ------------------------------------------------- claims on false accepts

\* the code the server recovered from the received list: the integer value of
\* the bits of code_builder
RecoveredCode ==
    digits_to_int(code_builder(hints_detection(received, build.permutation),
                               eta, key, build.permutation), 2).val

\* C13: whenever build succeeds on the received list and controller_verify on
\* the built graph reports is_authentic = true for an expected code >= 0, the
\* code recovered by code_builder is the expected code.
C13_NoFalseAccept ==
    (pc = "verified" /\ zeta >= 0 /\ ~vr.raised /\ vr.is_authentic) =>
        RecoveredCode = zeta

====
